---- MODULE Spec2Model ----
(***************************************************************************)
(* The video-plan resolution pipeline of Kinective                         *)
(* (next-js/src/lib/langChainLogic.js): getExercisePlan and getWeeklyPlan, *)
(* with the search provider, the fetched pages, the oEmbed endpoint and    *)
(* the generative model as the environment.                                *)
(*                                                                         *)
(* Strings are sequences of pieces (TLA+ strings are atomic).  A piece is  *)
(* a run of characters that the code's patterns either match whole or not  *)
(* at all, so String.includes and the regular expressions of the source    *)
(* become tests on contiguous pieces.  JavaScript values are tagged        *)
(* records: [t |-> "string", s |-> pieces], [t |-> "null"], ...            *)
(***************************************************************************)
EXTENDS Integers, Sequences, FiniteSets, TLC

(***************************************************************************)
(* Bounds of the model.                                                    *)
(***************************************************************************)
\* the longest result list the search provider answers with
MaxResults == 3

(***************************************************************************)
(* JavaScript values.                                                      *)
(***************************************************************************)
Str(s) == [t |-> "string", s |-> s]
Null == [t |-> "null"]
Undefined == [t |-> "undefined"]
Num == [t |-> "number"]
Obj == [t |-> "object"]
Arr(e) == [t |-> "array", elems |-> e]

\* String.prototype.toLowerCase, piece by piece
LowerPiece(p) ==
    CASE p = "Arm" -> "arm"
      [] p = "Workout" -> "workout"
      [] OTHER -> p

toLowerCase(s) == [i \in 1..Len(s) |-> LowerPiece(s[i])]

WhiteSpace == {" ", "\n"}

RECURSIVE trimStart(_)
trimStart(s) ==
    IF s # <<>> /\ Head(s) \in WhiteSpace THEN trimStart(Tail(s)) ELSE s

RECURSIVE trimEnd(_)
trimEnd(s) ==
    IF s # <<>> /\ s[Len(s)] \in WhiteSpace
    THEN trimEnd(SubSeq(s, 1, Len(s) - 1))
    ELSE s

\* String.prototype.trim
trim(s) == trimEnd(trimStart(s))

\* String.prototype.includes: p occurs in s as a contiguous run
includes(s, p) ==
    \E i \in 1..(Len(s) - Len(p) + 1) : SubSeq(s, i, i + Len(p) - 1) = p

\* a regular expression ending in $: s ends with one of the pieces
endsWithOneOf(s, ps) == s # <<>> /\ s[Len(s)] \in ps

(***************************************************************************)
(* normalizeQuery (langChainLogic.js 11-26).  userQuery.trim() throws a    *)
(* TypeError when userQuery is not a string.                               *)
(***************************************************************************)
fitnessContext ==
    {"exercise", "workout", "fitness", "stretch", "rehab", "training"}

normalizeQueryThrows(userQuery) == userQuery.t # "string"

\* a normalization that does not trim the query
normalizeQueryUntrimmed(userQuery) ==
    LET q == toLowerCase(userQuery.s)
        hasFitnessWord == \E word \in fitnessContext : includes(q, <<word>>)
    IN  IF ~hasFitnessWord
        THEN q \o <<" ", "exercise", " ", "workout", " ", "video">>
        ELSE q \o <<" ", "workout", " ", "exercise", " ", "fitness", " ",
                    "training", " ", "stretch", " ", "video">>

\* a normalization that leaves an empty query empty
normalizeQueryKeepEmpty(userQuery) ==
    LET q == toLowerCase(trim(userQuery.s))
    IN  IF q = <<>> THEN q
        ELSE q \o <<" ", "exercise", " ", "workout", " ", "video">>

normalizeQuery(userQuery) ==
    LET q == toLowerCase(trim(userQuery.s))
        hasFitnessWord == \E word \in fitnessContext : includes(q, <<word>>)
    IN  IF ~hasFitnessWord
        THEN q \o <<" ", "exercise", " ", "workout", " ", "video">>
        ELSE q \o <<" ", "workout", " ", "exercise", " ", "fitness", " ",
                    "training", " ", "stretch", " ", "video">>

(***************************************************************************)
(* The URLs of the model.                                                  *)
(***************************************************************************)
YtWatch == <<"https://", "www.", "youtube.com", "/watch?v=", "dQw4w9WgXcQ">>
Vimeo == <<"https://", "vimeo.com/", "12345">>
Blog == <<"https://", "example.com", "/blog/post">>
Clip == <<"https://", "cdn.example.com", "/clip", ".mp4">>
ClipQ == <<"https://", "cdn.example.com", "/clip", ".mp4", "?t=1">>

\* pieces that are a run of decimal digits (\d+)
Digits == {"12345"}
\* pieces that are eleven characters of [\w-]
Id11 == {"dQw4w9WgXcQ"}

\* isDirectVideo (langChainLogic.js 46-50): includes is case-sensitive, the
\* regular expression is not
isDirectVideo(url) ==
    \/ includes(url, <<"youtube.com", "/watch?v=">>)
    \/ includes(url, <<"youtube.com", "/shorts/">>)
    \/ includes(url, <<"youtu.be/">>)
    \/ endsWithOneOf(toLowerCase(url), {".mp4", ".webm"})

\* isValidVideoUrl (langChainLogic.js 120-135), of any JavaScript value
isValidVideoUrl(v) ==
    IF v.t # "string" \/ v.s = <<>> THEN FALSE
    ELSE LET u == toLowerCase(v.s)
         IN  \/ includes(u, <<"youtube.com", "/watch?v=">>)
             \/ includes(u, <<"youtube.com", "/shorts/">>)
             \/ includes(u, <<"youtu.be/">>)
             \/ \E d \in Digits : includes(u, <<"vimeo.com/", d>>)
             \/ includes(u, <<"tiktok.com", "/video/">>)
             \/ includes(u, <<"dailymotion.com", "/video/">>)
             \/ includes(u, <<"instagram.com", "/reel/">>)
             \/ endsWithOneOf(u, {".mp4", ".webm"})

\* the test /youtu(\.be|be\.com)/i of isPlayableYouTubeUrl (155)
isYouTube(url) ==
    \E i \in 1..Len(url) : LowerPiece(url[i]) \in {"youtube.com", "youtu.be/"}

(***************************************************************************)
(* extractVideoFromPage (langChainLogic.js 64-76).  A page body is the     *)
(* sequence of the URLs its markup holds, each delimited by quotes or      *)
(* white space.                                                            *)
(***************************************************************************)
Schemes == {"https://", "http://"}

\* last index of a .mp4/.webm piece that follows the scheme and at least one
\* more piece; 0 when there is none ([^"'\s]+ is greedy)
lastFileExt(u) ==
    LET ks == {k \in 3..Len(u) : LowerPiece(u[k]) \in {".mp4", ".webm"}}
    IN  IF u = <<>> \/ LowerPiece(u[1]) \notin Schemes \/ ks = {} THEN 0
        ELSE CHOOSE k \in ks : \A j \in ks : j <= k

\* html.match(videoRegex): the first URL of the page that matches
RECURSIVE matchVideoRegex(_)
matchVideoRegex(html) ==
    IF html = <<>> THEN Null
    ELSE IF lastFileExt(Head(html)) > 0
         THEN Str(SubSeq(Head(html), 1, lastFileExt(Head(html))))
         ELSE matchVideoRegex(Tail(html))

isYtWatchUrl(u) ==
    /\ Len(u) >= 5
    /\ LowerPiece(u[1]) \in Schemes
    /\ toLowerCase(SubSeq(u, 2, 4)) = <<"www.", "youtube.com", "/watch?v=">>
    /\ u[5] \in Id11

\* html.match(ytRegex)
RECURSIVE matchYtRegex(_)
matchYtRegex(html) ==
    IF html = <<>> THEN Null
    ELSE IF isYtWatchUrl(Head(html)) THEN Str(SubSeq(Head(html), 1, 5))
         ELSE matchYtRegex(Tail(html))

\* lines 69-72: the file match is preferred to the YouTube match
extractFromHtml(html) ==
    IF matchVideoRegex(html) # Null THEN matchVideoRegex(html)
    ELSE matchYtRegex(html)

\* what one page fetch can answer: the request rejects, a non-success status
\* (its error page has a body, which line 67 keeps the code from reading), or
\* a body
Pages == {<<>>, <<YtWatch>>, <<Vimeo, ClipQ>>, <<YtWatch, Clip>>}

PageOutcomes ==
    {[status |-> "reject", html |-> <<>>],
     [status |-> "notok", html |-> <<YtWatch>>]}
    \cup {[status |-> "ok", html |-> h] : h \in Pages}

\* an extraction that reads the body whatever the status of the response
extractVideoAnyStatus(o) == extractFromHtml(o.html)

\* extractVideoFromPage, given the outcome of fetch(url)
extractVideoFromPage(o) ==
    IF o.status = "ok" THEN extractFromHtml(o.html) ELSE Null

(***************************************************************************)
(* The search provider's answers.                                          *)
(***************************************************************************)
SearchUrls == {YtWatch, Clip, Vimeo}

RECURSIVE SeqsUpTo(_, _)
SeqsUpTo(S, n) ==
    IF n = 0 THEN {<<>>}
    ELSE LET shorter == SeqsUpTo(S, n - 1)
         IN  shorter \cup {Append(s, x) : s \in shorter, x \in S}

SearchResults == SeqsUpTo(SearchUrls, MaxResults)

\* the filter of line 52 keeping every result
directVideosAll(urls) == SelectSeq(urls, LAMBDA u : TRUE)

\* lines 52-61: the direct results, then the non-null extractions
directVideos(urls) == SelectSeq(urls, isDirectVideo)

isString(v) == v.t = "string"

\* the union with the extractions put before the direct results
tavilyOutputExtractedFirst(urls, extracted) ==
    LET found == SelectSeq(extracted, isString)
    IN  [i \in 1..Len(found) |-> found[i].s] \o directVideos(urls)

tavilyOutput(urls, extracted) ==
    LET found == SelectSeq(extracted, isString)
    IN  directVideos(urls) \o [i \in 1..Len(found) |-> found[i].s]

(***************************************************************************)
(* The generative model's answer.  result.content is a text or not a       *)
(* string; a text is a sequence of pieces: a code fence with its tag, white*)
(* space, prose, or one JSON document with the value it denotes.           *)
(***************************************************************************)
Fence(tag) == [k |-> "fence", tag |-> tag]
Ws == [k |-> "ws"]
Prose == [k |-> "prose"]
Json(v) == [k |-> "json", v |-> v]

Text(pieces) == [t |-> "string", text |-> pieces]

isWs(p) == p.k = "ws"
notWs(p) == p.k # "ws"

RECURSIVE trimTextStart(_)
trimTextStart(x) ==
    IF x # <<>> /\ isWs(Head(x)) THEN trimTextStart(Tail(x)) ELSE x

RECURSIVE trimTextEnd(_)
trimTextEnd(x) ==
    IF x # <<>> /\ isWs(x[Len(x)])
    THEN trimTextEnd(SubSeq(x, 1, Len(x) - 1))
    ELSE x

trimText(x) == trimTextEnd(trimTextStart(x))

\* the pieces /```json|```/g leaves of one piece: "```json" and "```" go,
\* of a fence with another tag the tag stays
removedFence(p) == p.k = "fence" /\ p.tag \in {"json", ""}
keptPiece(p) == ~removedFence(p)

\* the same replacement inside the JSON document: the pattern has the g
\* flag and takes every occurrence, those inside string literals too
\* (the pieces stand for three backticks, with and without the tag)
BackTicks == {"<3 backticks>json", "<3 backticks>"}
notBackTicks(p) == p \notin BackTicks

RECURSIVE replaceInValue(_)
replaceInValue(v) ==
    CASE v.t = "string" -> [v EXCEPT !.s = SelectSeq(v.s, notBackTicks)]
      [] v.t = "array" ->
            [v EXCEPT !.elems = [i \in 1..Len(v.elems) |->
                                    replaceInValue(v.elems[i])]]
      [] v.t = "entry" ->
            [v EXCEPT !.day = replaceInValue(v.day),
                      !.video = replaceInValue(v.video),
                      !.name = replaceInValue(v.name),
                      !.description = replaceInValue(v.description)]
      [] OTHER -> v

replaceFences(x) ==
    LET kept == SelectSeq(x, keptPiece)
    IN  [i \in 1..Len(kept) |->
            IF kept[i].k = "fence" THEN Prose
            ELSE IF kept[i].k = "json"
                 THEN [kept[i] EXCEPT !.v = replaceInValue(kept[i].v)]
                 ELSE kept[i]]

\* lines 100-103 and 230-233
responseText(content) ==
    LET text == IF content.t = "string" THEN trimText(content.text) ELSE <<>>
    IN  IF text # <<>> /\ Head(text).k = "fence"
        THEN trimText(replaceFences(text))
        ELSE text

\* JSON.parse: white space around one document, anything else is a
\* SyntaxError
jsonParseThrows(text) ==
    LET body == SelectSeq(text, notWs)
    IN  ~(Len(body) = 1 /\ body[1].k = "json")

jsonParse(text) == SelectSeq(text, notWs)[1].v

\* a plan entry
Entry(day, video, name, description) ==
    [t |-> "entry", day |-> day, video |-> video, name |-> name,
     description |-> description]

\* d && isValidVideoUrl(d.video) of line 238
truthy(d) == d.t \notin {"null", "undefined"}
videoOf(d) == IF d.t = "entry" THEN d.video ELSE Undefined
\* the filter without its pattern test
keepParsedTruthy(d) == truthy(d)
keepParsed(d) == truthy(d) /\ isValidVideoUrl(videoOf(d))

\* parsed.filter(...) of line 238; a value that is no array has no filter
\* method and the call throws a TypeError
filterThrows(parsed) == parsed.t # "array"
filterParsed(parsed) == Arr(SelectSeq(parsed.elems, keepParsed))

\* lines 105-112: the single flow returns what JSON.parse gave
singlePlan(content) ==
    LET text == responseText(content)
    IN  IF jsonParseThrows(text) THEN Arr(<<>>) ELSE jsonParse(text)

\* lines 235-244
weeklyFallbackPlan(content) ==
    LET text == responseText(content)
    IN  IF jsonParseThrows(text) THEN Arr(<<>>)
        ELSE IF filterThrows(jsonParse(text)) THEN Arr(<<>>)
        ELSE filterParsed(jsonParse(text))

\* the number of days of a week (lines 191, 214)
WeekLen == 7

DayLabel(i) == Str(<<"Day ", ToString(i)>>)
Tip == Str(<<"short tip">>)

GenVimeo == Entry(DayLabel(1), Str(Vimeo), Str(<<"Plank">>), Tip)
GenBlog == Entry(DayLabel(1), Str(Blog), Str(<<"Squat">>), Tip)
GenYt == Entry(DayLabel(2), Str(YtWatch), Str(<<"Lunge">>), Tip)
GenNoVideo == Entry(DayLabel(3), Undefined, Str(<<"Rest">>), Tip)
\* an entry whose description quotes a snippet between triple backticks
GenQuoting == Entry(DayLabel(1), Str(Vimeo), Str(<<"Plank">>),
                    Str(<<"log as ", "<3 backticks>", "plank 60s",
                          "<3 backticks>">>))

\* more entries than the week has days
LongArray ==
    Arr([i \in 1..(WeekLen + 1) |->
            Entry(DayLabel(i), Str(Vimeo), Str(<<"Plank">>), Tip)])

Documents ==
    {Arr(<<>>), Arr(<<GenVimeo>>), Arr(<<GenBlog>>), Arr(<<GenYt>>),
     Arr(<<GenBlog, GenVimeo>>), Arr(<<Null, GenNoVideo, GenYt>>),
     LongArray, Obj, Num, Null, Str(<<"none">>)}

Contents ==
    {Text(<<Json(d)>>) : d \in Documents}
    \cup {Text(<<Fence("json"), Ws, Json(Arr(<<GenVimeo>>)), Ws, Fence("")>>),
          Text(<<Ws, Fence(""), Json(Arr(<<GenBlog>>)), Fence(""), Ws>>),
          Text(<<Fence("js"), Ws, Json(Arr(<<GenVimeo>>)), Ws, Fence("")>>),
          Text(<<Fence("json"), Ws, Json(Arr(<<GenQuoting>>)), Ws, Fence("")>>),
          Text(<<Json(Arr(<<GenQuoting>>))>>),
          Text(<<Prose, Ws, Json(Arr(<<GenVimeo>>))>>),
          Text(<<>>),
          Arr(<<>>)}

(***************************************************************************)
(* One run of the pipeline.                                                *)
(***************************************************************************)
VARIABLES
    flow,          \* "single": getExercisePlan, "weekly": getWeeklyPlan
    userQuery,     \* the argument of the call
    normalized,    \* const normalized
    pc,            \* the await the run is suspended at, or how it ended
    searchCalls,   \* requests made to the search provider
    searchOutcome, \* how the search request ended
    urls,          \* const urls of tavilySearch
    page,          \* per search result: its page fetch and what it extracted
    videos,        \* what tavilySearch returned
    validVideos,   \* const validVideos of getWeeklyPlan
    lookups,       \* per valid video: the liveness lookups made for it
    live,          \* per valid video, in order: its liveness lookup
    playable,      \* const playable of getWeeklyPlan
    modelCalls,    \* calls of model.invoke
    modelOutcome,  \* how model.invoke ended
    content,       \* result.content of the model's answer
    result,        \* the value the call returned
    other,         \* a second call in progress, suspended at one of its awaits
    completion,    \* the order in which the page fetches completed, where
                   \* it is recorded
    arms,          \* ArmsPage (app/arms/page.js) and the tracker server
    library,       \* LibraryPage (app/library/page.js) and the stored document
    planner,       \* WorkOutPlanPage (app/workOutPlanPage/page.js)
    route          \* a POST handler of app/api (exercise or weeklyPlan)

vars ==
    <<flow, userQuery, normalized, pc, searchCalls, searchOutcome, urls, page,
      videos, validVideos, lookups, live, playable, modelCalls, modelOutcome,
      content, result, other, completion, arms, library, planner, route>>

\* the state of the pages and of the route handler
clients == <<arms, library, planner, route>>

\* the completion order is not recorded
Unrecorded == [tracked |-> FALSE, order |-> <<>>]

\* no second call
Absent == [pc |-> "absent"]

\* no page is open and no request is being handled
NoClients ==
    /\ arms = Absent
    /\ library = Absent
    /\ planner = Absent
    /\ route = Absent

Queries ==
    {Str(<<"back", " ", "pain">>), Str(<<" ", "Arm", " ", "Workout", " ">>),
     Str(<<" ">>), Str(<<>>), Num}

NoResult == [type |-> "none"]

Init ==
    /\ flow \in {"single", "weekly"}
    /\ userQuery \in Queries
    /\ normalized = <<>>
    /\ pc = "start"
    /\ searchCalls = 0
    /\ searchOutcome = "none"
    /\ urls = <<>>
    /\ page = <<>>
    /\ videos = <<>>
    /\ validVideos = <<>>
    /\ lookups = <<>>
    /\ live = <<>>
    /\ playable = <<>>
    /\ modelCalls = 0
    /\ modelOutcome = "none"
    /\ content = Undefined
    /\ result = NoResult
    /\ other = Absent
    /\ completion = Unrecorded
    /\ NoClients

ErrorResult(message) == [type |-> "error", error |-> message]
VideosResult(vs) == [type |-> "videos", videos |-> vs]
PlanResult(plan) == [type |-> "plan", plan |-> plan]
WeeklyResult(plan) == [type |-> "weeklyPlan", plan |-> plan]

\* the test of line 85 off by one
discoveryAnsweredMany(vs) == Len(vs) > 1

\* the test of line 85 passing the empty array
discoveryAnsweredAny(vs) == Len(vs) >= 0

\* line 85: if (videos.length > 0)
discoveryAnswered(vs) == Len(vs) > 0

\* line 175
filterValid(vs) == SelectSeq(vs, LAMBDA u : isValidVideoUrl(Str(u)))

\* line 190: Array.prototype.sort with a random comparator leaves some
\* permutation of the array
shuffle(pl, perm) == [i \in 1..Len(pl) |-> pl[perm[i]]]

\* the slice of line 191 without its end index
limitNone(shuffled) == SubSeq(shuffled, 1, Len(shuffled))

\* line 191
limit(shuffled) ==
    SubSeq(shuffled, 1, IF WeekLen < Len(shuffled) THEN WeekLen
                        ELSE Len(shuffled))

\* lines 194-199
buildWeeklyPlan(limitedVideos, query) ==
    [i \in 1..Len(limitedVideos) |->
        Entry(DayLabel(i), Str(limitedVideos[i]), Str(<<"Suggested workout">>),
              Str(<<"Exercise video for ">> \o query))]

\* the test of line 202 asking for a full week of videos
planFoundFullWeek(weeklyPlan) == Len(weeklyPlan) >= WeekLen

\* the test of line 202 accepting the empty plan
planFoundAlways(weeklyPlan) == Len(weeklyPlan) >= 0

\* line 202: if (weeklyPlan.length > 0)
planFound(weeklyPlan) == Len(weeklyPlan) > 0

\* the for loop of lines 180-186 up to its next network lookup: a video that
\* is not a YouTube link is playable without a lookup
RECURSIVE loopAdvance(_, _, _)
loopAdvance(vv, lv, pl) ==
    IF Len(lv) < Len(vv) /\ ~isYouTube(vv[Len(lv) + 1])
    THEN loopAdvance(vv, Append(lv, "skipped"), Append(pl, vv[Len(lv) + 1]))
    ELSE [live |-> lv, playable |-> pl]

\* return from the async function
Return(r) ==
    /\ pc' = "returned"
    /\ result' = r

\* lines 89 and 209: await model.invoke(...)
InvokeModel ==
    /\ pc' = "invoke"
    /\ modelCalls' = modelCalls + 1
    /\ result' = result

\* lines 189-209
Assemble(pl) ==
    \E perm \in Permutations(1..Len(pl)) :
        LET weeklyPlan == buildWeeklyPlan(limit(shuffle(pl, perm)), normalized)
        IN  IF planFound(weeklyPlan)
            THEN Return(WeeklyResult(Arr(weeklyPlan))) /\ modelCalls' = modelCalls
            ELSE InvokeModel

\* lines 179-187, entered with the lookups lv made so far
LivenessLoop(vv, lv, pl) ==
    LET r == loopAdvance(vv, lv, pl)
        made == IF lv = <<>> THEN [j \in 1..Len(vv) |-> 0] ELSE lookups
    IN  /\ validVideos' = vv
        /\ live' = r.live
        /\ playable' = r.playable
        /\ IF Len(r.live) < Len(vv)
           THEN /\ lookups' = [made EXCEPT ![Len(r.live) + 1] = @ + 1]
                /\ pc' = "liveness"
                /\ UNCHANGED <<modelCalls, result>>
           ELSE /\ lookups' = made
                /\ Assemble(r.playable)

\* the caller's code after await tavilySearch(normalized): lines 85-89 and
\* 172-187
AfterDiscovery(vs) ==
    /\ videos' = vs
    /\ IF flow = "single"
       THEN /\ UNCHANGED <<validVideos, lookups, live, playable>>
            /\ IF discoveryAnswered(vs)
               THEN Return(VideosResult(vs)) /\ modelCalls' = modelCalls
               ELSE InvokeModel
       ELSE LivenessLoop(filterValid(vs), <<>>, <<>>)

\* a catch that invokes the model again after a failure, once, where the
\* code returns the error
CatchRetry(message) ==
    /\ IF modelCalls = 1
       THEN pc' = "invoke" /\ modelCalls' = 2 /\ result' = result
       ELSE Return(ErrorResult(message)) /\ modelCalls' = modelCalls
    /\ UNCHANGED <<videos, validVideos, lookups, live, playable>>

\* the catch of lines 113-116 and 245-248
Catch(message) ==
    /\ Return(ErrorResult(message))
    /\ UNCHANGED <<videos, validVideos, lookups, live, playable, modelCalls>>

(***************************************************************************)
(* The steps of a run: the code from one await to the next.                *)
(***************************************************************************)
\* lines 80-84 and 150-171 up to the search request.  normalizeQuery is
\* called before the try block: what it throws rejects the call.
Start ==
    /\ pc = "start"
    /\ IF normalizeQueryThrows(userQuery)
       THEN /\ pc' = "rejected"
            /\ UNCHANGED <<normalized, searchCalls>>
       ELSE /\ normalized' = normalizeQuery(userQuery)
            /\ searchCalls' = searchCalls + 1
            /\ pc' = "searchFetch"
    /\ UNCHANGED <<other, completion, clients>>
    /\ UNCHANGED <<flow, userQuery, searchOutcome, urls, page, videos,
                   validVideos, lookups, live, playable, modelCalls,
                   modelOutcome, content, result>>

\* line 30 settles; line 42.  tavilySearch has no try block: a rejected
\* request is thrown into the caller's try block.
SearchFetchSettles ==
    /\ pc = "searchFetch"
    /\ \E o \in {"reject", "notok", "ok"} :
        /\ searchOutcome' = o
        /\ CASE o = "reject" -> Catch("fetch failed")
             [] o = "notok" -> AfterDiscovery(<<>>)
             [] o = "ok" ->
                    /\ pc' = "searchBody"
                    /\ UNCHANGED <<videos, validVideos, lookups, live, playable,
                                   modelCalls, result>>
    /\ UNCHANGED <<other, completion, clients>>
    /\ UNCHANGED <<flow, userQuery, normalized, searchCalls, urls, page,
                   modelOutcome, content>>

\* line 43 rejects: the body is no JSON
SearchBodyUnreadable ==
    /\ pc = "searchBody"
    /\ searchOutcome' = "unreadable"
    /\ Catch("Unexpected token < in JSON")
    /\ UNCHANGED <<other, completion, clients>>
    /\ UNCHANGED <<flow, userQuery, normalized, searchCalls, urls, page,
                   modelOutcome, content>>

\* Promise.all of lines 54-59 resolves once every promise has settled; the
\* promise of a fetch that never responds ("hung") never does
allSettled(pg) ==
    \A j \in 1..Len(pg) : pg[j].status \notin {"pending", "hung"}
extractedOf(pg) == [j \in 1..Len(pg) |-> pg[j].out]

\* an array of the values in the order in which the fetches completed
promiseAllByCompletion(pg, order) ==
    [k \in 1..Len(order) |-> pg[order[k]].out]

\* await Promise.all(urls.map(...)) of lines 54-59: the values in the order
\* of the promises, whatever the order in which they settled
promiseAll(pg, order) == extractedOf(pg)

\* lines 43-59: the body is read and every page fetch is started
SearchBodyReadFrom(results) ==
    /\ pc = "searchBody"
    /\ \E rs \in results :
        LET pg == [i \in 1..Len(rs) |->
                      IF isDirectVideo(rs[i])
                      THEN [status |-> "direct", out |-> Null, fetches |-> 0]
                      ELSE [status |-> "pending", out |-> Null,
                            fetches |-> 1]]
        IN  /\ urls' = rs
            /\ page' = pg
            /\ IF allSettled(pg)
               THEN AfterDiscovery(tavilyOutput(rs, promiseAll(pg, <<>>)))
               ELSE /\ pc' = "pages"
                    /\ UNCHANGED <<videos, validVideos, lookups, live, playable,
                                   modelCalls, result>>
    /\ UNCHANGED <<other, completion, clients>>
    /\ UNCHANGED <<flow, userQuery, normalized, searchCalls, searchOutcome,
                   modelOutcome, content>>

SearchBodyRead == SearchBodyReadFrom(SearchResults)

\* one page fetch settles (lines 66-75); with the last one Promise.all
\* resolves and tavilySearch returns (line 61)
PageSettles ==
    /\ pc = "pages"
    /\ \E i \in 1..Len(urls), o \in PageOutcomes :
        /\ page[i].status = "pending"
        /\ LET pg == [page EXCEPT ![i] = [status |-> o.status,
                                          out |-> extractVideoFromPage(o),
                                          fetches |-> page[i].fetches]]
               done == IF completion.tracked
                       THEN [completion EXCEPT !.order = Append(@, i)]
                       ELSE completion
           IN  /\ page' = pg
               /\ completion' = done
               /\ IF allSettled(pg)
                  THEN AfterDiscovery(
                           tavilyOutput(urls, promiseAll(pg, done.order)))
                  ELSE UNCHANGED <<pc, videos, validVideos, lookups, live,
                                   playable, modelCalls, result>>
    /\ UNCHANGED <<other, clients>>
    /\ UNCHANGED <<flow, userQuery, normalized, searchCalls, searchOutcome,
                   urls, modelOutcome, content>>

\* a lookup that takes a request that rejects for a playable video
lookupPlayableUnlessStatus(o) == o # "notok"

\* lines 158-166: res.ok, and false when the request rejects
lookupPlayable(o) == o = "ok"

\* isPlayableYouTubeUrl (lines 154-167) settles for the video the loop is at
LivenessSettles ==
    /\ pc = "liveness"
    /\ \E o \in {"ok", "notok", "reject"} :
        LET v == validVideos[Len(live) + 1]
        IN  LivenessLoop(validVideos, Append(live, o),
                         IF lookupPlayable(o) THEN Append(playable, v)
                         ELSE playable)
    /\ UNCHANGED <<other, completion, clients>>
    /\ UNCHANGED <<flow, userQuery, normalized, searchCalls, searchOutcome,
                   urls, page, videos, modelOutcome, content>>

\* model.invoke rejects: lines 113-116 and 245-248
ModelRejects ==
    /\ pc = "invoke"
    /\ modelOutcome' = "reject"
    /\ Catch("model unavailable")
    /\ UNCHANGED <<other, completion, clients>>
    /\ UNCHANGED <<flow, userQuery, normalized, searchCalls, searchOutcome,
                   urls, page, content>>

\* model.invoke answers: lines 100-112 and 230-244
ModelAnswers ==
    /\ pc = "invoke"
    /\ \E c \in Contents :
        /\ content' = c
        /\ Return(IF flow = "single"
                  THEN PlanResult(singlePlan(c))
                  ELSE WeeklyResult(weeklyFallbackPlan(c)))
    /\ modelOutcome' = "answered"
    /\ UNCHANGED <<other, completion, clients>>
    /\ UNCHANGED <<flow, userQuery, normalized, searchCalls, searchOutcome,
                   urls, page, videos, validVideos, lookups, live, playable,
                   modelCalls>>

Next ==
    \/ Start
    \/ SearchFetchSettles
    \/ SearchBodyUnreadable
    \/ SearchBodyRead
    \/ PageSettles
    \/ LivenessSettles
    \/ ModelRejects
    \/ ModelAnswers

Spec == Init /\ [][Next]_vars

(***************************************************************************)
(* normalizeQuery alone, applied to every query string of up to            *)
(* MaxQueryLen pieces.  A keyword inside a longer word is the keyword      *)
(* piece next to another piece ("Workout" "s").                            *)
(***************************************************************************)
MaxQueryLen == 3

QueryPieces == {" ", "\n", "Arm", "Workout", "back", "rehab", "s"}

NormInit ==
    /\ flow \in {"single", "weekly"}
    /\ userQuery \in {Str(q) : q \in SeqsUpTo(QueryPieces, MaxQueryLen)}
    /\ normalized = <<>>
    /\ pc = "start"
    /\ searchCalls = 0
    /\ searchOutcome = "none"
    /\ urls = <<>>
    /\ page = <<>>
    /\ videos = <<>>
    /\ validVideos = <<>>
    /\ lookups = <<>>
    /\ live = <<>>
    /\ playable = <<>>
    /\ modelCalls = 0
    /\ modelOutcome = "none"
    /\ content = Undefined
    /\ result = NoResult
    /\ other = Absent
    /\ completion = Unrecorded
    /\ NoClients

\* lines 80 and 150: const normalized = normalizeQuery(userQuery)
NormalizeStep ==
    /\ pc = "start"
    /\ normalized' = normalizeQuery(userQuery)
    /\ pc' = "normalized"
    /\ UNCHANGED <<other, completion, clients>>
    /\ UNCHANGED <<flow, userQuery, searchCalls, searchOutcome, urls, page,
                   videos, validVideos, lookups, live, playable, modelCalls,
                   modelOutcome, content, result>>

NormNext == NormalizeStep

NormSpec == NormInit /\ [][NormNext]_vars

(***************************************************************************)
(* The batch of page fetches of tavilySearch, in a call of getExercisePlan, *)
(* with the order in which the fetches complete recorded.                  *)
(***************************************************************************)
BatchInit ==
    /\ flow = "single"
    /\ userQuery = Str(<<"back", " ", "pain">>)
    /\ normalized = <<>>
    /\ pc = "start"
    /\ searchCalls = 0
    /\ searchOutcome = "none"
    /\ urls = <<>>
    /\ page = <<>>
    /\ videos = <<>>
    /\ validVideos = <<>>
    /\ lookups = <<>>
    /\ live = <<>>
    /\ playable = <<>>
    /\ modelCalls = 0
    /\ modelOutcome = "none"
    /\ content = Undefined
    /\ result = NoResult
    /\ other = Absent
    /\ completion = [tracked |-> TRUE, order |-> <<>>]
    /\ NoClients

\* the steps of getExercisePlan (it has no liveness lookups)
BatchNext ==
    \/ Start
    \/ SearchFetchSettles
    \/ SearchBodyUnreadable
    \/ SearchBodyRead
    \/ PageSettles
    \/ ModelRejects
    \/ ModelAnswers

BatchSpec == BatchInit /\ [][BatchNext]_vars

(***************************************************************************)
(* A call of getWeeklyPlan whose search returns up to more than a week of  *)
(* results.                                                                *)
(***************************************************************************)
WeekInit ==
    /\ flow = "weekly"
    /\ userQuery = Str(<<"back", " ", "pain">>)
    /\ normalized = <<>>
    /\ pc = "start"
    /\ searchCalls = 0
    /\ searchOutcome = "none"
    /\ urls = <<>>
    /\ page = <<>>
    /\ videos = <<>>
    /\ validVideos = <<>>
    /\ lookups = <<>>
    /\ live = <<>>
    /\ playable = <<>>
    /\ modelCalls = 0
    /\ modelOutcome = "none"
    /\ content = Undefined
    /\ result = NoResult
    /\ other = Absent
    /\ completion = Unrecorded
    /\ NoClients

\* data.results of line 44: one result, and a week and a day of results of
\* which two are YouTube links and one is a page to extract from
WeekResults ==
    {<<YtWatch>>,
     <<Clip, YtWatch, Vimeo, Clip, YtWatch>> \o [i \in 1..(WeekLen - 4) |-> Clip]}

WeekNext ==
    \/ Start
    \/ SearchFetchSettles
    \/ SearchBodyUnreadable
    \/ SearchBodyReadFrom(WeekResults)
    \/ PageSettles
    \/ LivenessSettles
    \/ ModelRejects
    \/ ModelAnswers

WeekSpec == WeekInit /\ [][WeekNext]_vars

(***************************************************************************)
(* ArmsPage (app/arms/page.js): the page that starts, stops and polls the  *)
(* bicep tracker.  The tracker server is the environment: it answers a     *)
(* request or the request fails.  arms.pending counts the requests of each *)
(* kind that are in flight.                                                *)
(***************************************************************************)
\* the most requests of the page in flight at once
MaxPending == 2

\* no call of the pipeline is in progress
NoCall ==
    /\ flow = "none"
    /\ userQuery = Undefined
    /\ normalized = <<>>
    /\ pc = "idle"
    /\ searchCalls = 0
    /\ searchOutcome = "none"
    /\ urls = <<>>
    /\ page = <<>>
    /\ videos = <<>>
    /\ validVideos = <<>>
    /\ lookups = <<>>
    /\ live = <<>>
    /\ playable = <<>>
    /\ modelCalls = 0
    /\ modelOutcome = "none"
    /\ content = Undefined
    /\ result = NoResult
    /\ other = Absent
    /\ completion = Unrecorded

pipeline ==
    <<flow, userQuery, normalized, pc, searchCalls, searchOutcome, urls, page,
      videos, validVideos, lookups, live, playable, modelCalls, modelOutcome,
      content, result, other, completion>>

NoneInFlight == [status |-> 0, start |-> 0, stop |-> 0]
InFlight(pending) == pending.status + pending.start + pending.stop

\* the page after its first render and its effect (lines 5-13): both states
\* at their initial values, the interval set, checkStatus() called once; the
\* effect has no dependencies, so its cleanup is the one made by the first
\* render and reads that render's isRunning
ArmsInit ==
    /\ NoCall
    /\ arms = [pc |-> "mounted",
               isRunning |-> FALSE,
               status |-> "Ready to start",
               effectIsRunning |-> FALSE,
               pending |-> [NoneInFlight EXCEPT !.status = 1],
               left |-> "no"]
    /\ library = Absent
    /\ planner = Absent
    /\ route = Absent

\* setIsRunning and setStatus: a state update of a page that is no longer
\* mounted is dropped
ArmsSet(a, running, status) ==
    IF a.pc = "mounted"
    THEN [a EXCEPT !.isRunning = running, !.status = status]
    ELSE a

\* line 13: the interval calls checkStatus (line 26)
ArmsPollTick ==
    /\ arms.pc = "mounted"
    /\ InFlight(arms.pending) < MaxPending
    /\ arms' = [arms EXCEPT !.pending.status = @ + 1]
    /\ UNCHANGED <<pipeline, library, planner, route>>

\* checkStatus, lines 27-37: the status request is answered or fails
ArmsStatusSettles ==
    /\ arms.pending.status > 0
    /\ \E outcome \in {"running", "stopped", "failed"} :
          LET a == [arms EXCEPT !.pending.status = @ - 1]
          IN  arms' =
                CASE outcome = "running" ->
                       ArmsSet(a, TRUE, "AI Bicep Tracker is running!")
                  [] outcome = "stopped" ->
                       ArmsSet(a, FALSE, "Ready to start AI bicep curl tracking")
                  [] OTHER ->
                       ArmsSet(a, a.isRunning, "Unable to connect to AI server")
    /\ UNCHANGED <<pipeline, library, planner, route>>

\* startTracker up to its await (lines 42-43); the button is disabled while
\* isRunning (line 104)
ArmsStart ==
    /\ arms.pc = "mounted"
    /\ ~arms.isRunning
    /\ InFlight(arms.pending) < MaxPending
    /\ arms' = [ArmsSet(arms, arms.isRunning, "Starting AI tracker...")
                    EXCEPT !.pending.start = @ + 1]
    /\ UNCHANGED <<pipeline, library, planner, route>>

\* startTracker, lines 46-56
ArmsStartSettles ==
    /\ arms.pending.start > 0
    /\ \E outcome \in {"started", "error", "failed"} :
          LET a == [arms EXCEPT !.pending.start = @ - 1]
          IN  arms' =
                CASE outcome = "started" -> ArmsSet(a, TRUE, "data.message")
                  [] outcome = "error" ->
                       ArmsSet(a, a.isRunning, "Error: data.error")
                  [] OTHER ->
                       ArmsSet(a, a.isRunning, "Failed to start tracker")
    /\ UNCHANGED <<pipeline, library, planner, route>>

\* stopTracker up to its await (lines 61-62)
stopTracker(a) ==
    [ArmsSet(a, a.isRunning, "Stopping AI tracker...")
        EXCEPT !.pending.stop = @ + 1]

\* the Stop button, disabled unless isRunning (line 115)
ArmsStop ==
    /\ arms.pc = "mounted"
    /\ arms.isRunning
    /\ InFlight(arms.pending) < MaxPending
    /\ arms' = stopTracker(arms)
    /\ UNCHANGED <<pipeline, library, planner, route>>

\* stopTracker, lines 65-71
ArmsStopSettles ==
    /\ arms.pending.stop > 0
    /\ \E outcome \in {"stopped", "failed"} :
          LET a == [arms EXCEPT !.pending.stop = @ - 1]
          IN  arms' =
                IF outcome = "stopped" THEN ArmsSet(a, FALSE, "data.message")
                ELSE ArmsSet(a, a.isRunning, "Failed to stop tracker")
    /\ UNCHANGED <<pipeline, library, planner, route>>

\* the user leaves the page: the cleanup of lines 15-21.  left records what
\* isRunning was and whether the cleanup sent a stop request
ArmsUnmount ==
    /\ arms.pc = "mounted"
    /\ LET sends == arms.effectIsRunning
           a == IF sends THEN stopTracker(arms) ELSE arms
       IN  arms' = [a EXCEPT !.pc = "unmounted",
                             !.left = IF arms.isRunning
                                      THEN (IF sends THEN "running, stop sent"
                                            ELSE "running, no stop sent")
                                      ELSE (IF sends THEN "idle, stop sent"
                                            ELSE "idle")]
    /\ UNCHANGED <<pipeline, library, planner, route>>

ArmsNext ==
    \/ ArmsPollTick
    \/ ArmsStatusSettles
    \/ ArmsStart
    \/ ArmsStartSettles
    \/ ArmsStop
    \/ ArmsStopSettles
    \/ ArmsUnmount

ArmsSpec == ArmsInit /\ [][ArmsNext]_vars

(***************************************************************************)
(* The POST handlers of app/api/exercise/route.js and                      *)
(* app/api/weeklyPlan/route.js around one call of the pipeline.  flow says *)
(* which of the two routes is handling the request.                        *)
(***************************************************************************)
\* what req.json() gives: it rejects on a body that is no JSON, or resolves
\* to the parsed value: null, an object without query, or an object with it
Unreadable == [t |-> "unreadable"]
Body(query) == [t |-> "body", query |-> query]

Bodies ==
    {Unreadable, Null, Body(Undefined), Body(Str(<<>>)), Body(Null),
     Body(Str(<<"back", " ", "pain">>)), Body(Num)}

\* lines 9 and 8 of the two routes
defaultQuery(f) ==
    IF f = "single" THEN Str(<<"quick", " ", "workout">>)
    ELSE Str(<<"full body", " ", "workout">>)

\* a value that || takes for false (the number of Bodies is not 0)
falsy(v) == v.t \in {"undefined", "null"} \/ v = Str(<<>>)

\* query ?? fallback
orDefaultNullish(query, fallback) ==
    IF query.t \in {"undefined", "null"} THEN fallback ELSE query

\* query || fallback
orDefault(query, fallback) == IF falsy(query) THEN fallback ELSE query

Response(status, body) == [status |-> status, body |-> body]
NoResponse == Response(0, NoResult)

\* the catch block of the routes: {error: err.message || "Unknown error"}
\* with status 500
ServerError(message) == Response(500, [error |-> message])

\* POST has been called and awaits req.json()
RouteInit ==
    /\ flow \in {"single", "weekly"}
    /\ userQuery = Undefined
    /\ normalized = <<>>
    /\ pc = "idle"
    /\ searchCalls = 0
    /\ searchOutcome = "none"
    /\ urls = <<>>
    /\ page = <<>>
    /\ videos = <<>>
    /\ validVideos = <<>>
    /\ lookups = <<>>
    /\ live = <<>>
    /\ playable = <<>>
    /\ modelCalls = 0
    /\ modelOutcome = "none"
    /\ content = Undefined
    /\ result = NoResult
    /\ other = Absent
    /\ completion = Unrecorded
    /\ arms = Absent
    /\ library = Absent
    /\ planner = Absent
    /\ route = [pc |-> "body", received |-> Unreadable, response |-> NoResponse]

\* const { query } = await req.json(), then the call of the pipeline up to
\* its first await (it is called with query || the default and runs until it
\* awaits the search request, or rejects)
RouteBodySettles ==
    /\ route.pc = "body"
    /\ \E b \in Bodies :
          IF b.t # "body"
          THEN \* req.json() rejected, or null has no property query
               /\ route' = [pc |-> "responded", received |-> b,
                            response |-> ServerError("TypeError")]
               /\ UNCHANGED pipeline
          ELSE /\ route' = [route EXCEPT !.pc = "awaiting", !.received = b]
               /\ userQuery' = orDefault(b.query, defaultQuery(flow))
               /\ pc' = "start"
               /\ UNCHANGED <<flow, normalized, searchCalls, searchOutcome,
                              urls, page, videos, validVideos, lookups, live,
                              playable, modelCalls, modelOutcome, content,
                              result, other, completion>>
    /\ UNCHANGED <<arms, library, planner>>

\* the await of the pipeline call settles: Response.json(result), or the
\* catch block when the call rejected
RouteResponds ==
    /\ route.pc = "awaiting"
    /\ pc \in {"returned", "rejected"}
    /\ route' = [route EXCEPT
                    !.pc = "responded",
                    !.response = IF pc = "returned" THEN Response(200, result)
                                 ELSE ServerError("TypeError")]
    /\ UNCHANGED <<pipeline, arms, library, planner>>

RouteNext ==
    \/ RouteBodySettles
    \/ Start
    \/ SearchFetchSettles
    \/ SearchBodyUnreadable
    \/ SearchBodyRead
    \/ PageSettles
    \/ LivenessSettles
    \/ ModelRejects
    \/ ModelAnswers
    \/ RouteResponds

RouteSpec == RouteInit /\ [][RouteNext]_vars

(***************************************************************************)
(* LibraryPage (app/library/page.js) and the document users/default of the *)
(* store, to which the planner page appends weekly plans                   *)
(* (saveWeeklyPlanToLibrary).  library.store is the weeklyPlans array of   *)
(* the document; a plan is its createdAt and its days.                     *)
(***************************************************************************)
\* the most plans ever saved
MaxPlans == 3

PlanDays == <<"Day 1", "Day 2">>
StoredPlan(createdAt, days) == [createdAt |-> createdAt, days |-> days]

\* lines 52-55: the displayed plan without the day at indexToRemove
withoutDay(plan, indexToRemove) ==
    [plan EXCEPT !.days = [k \in 1..(Len(plan.days) - 1) |->
                              IF k < indexToRemove THEN plan.days[k]
                              ELSE plan.days[k + 1]]]

\* lines 65-66: the stored array with its last element replaced
replaceLast(plans, updatedPlan) == [plans EXCEPT ![Len(plans)] = updatedPlan]

\* the page has rendered and its effect has called fetchLibraryData, which
\* awaits getDoc (lines 11-15); one plan is stored
LibraryInit ==
    /\ NoCall
    /\ arms = Absent
    /\ library = [pc |-> "loading",
                  store |-> <<StoredPlan(1, PlanDays)>>,
                  lastWeeklyPlan |-> Null,
                  updatedPlan |-> Null,
                  plans |-> <<>>,
                  saved |-> {StoredPlan(1, PlanDays)}]
    /\ planner = Absent
    /\ route = Absent

\* fetchLibraryData, lines 15-38
LibraryLoads ==
    /\ library.pc = "loading"
    /\ \E outcome \in {"read", "failed"} :
          library' =
            IF outcome = "read" /\ library.store # <<>>
            THEN [library EXCEPT
                    !.pc = "idle",
                    !.lastWeeklyPlan = library.store[Len(library.store)]]
            ELSE [library EXCEPT !.pc = "idle"]
    /\ UNCHANGED <<pipeline, arms, planner, route>>

\* saveWeeklyPlanToLibrary of the planner page (lines 36-51): arrayUnion
\* appends the new plan, whose createdAt is new
SavePlan ==
    /\ Len(library.store) < MaxPlans
    /\ Cardinality(library.saved) < MaxPlans
    /\ LET planData == StoredPlan(Cardinality(library.saved) + 1, PlanDays)
       IN  library' = [library EXCEPT !.store = Append(@, planData),
                                      !.saved = @ \cup {planData}]
    /\ UNCHANGED <<pipeline, arms, planner, route>>

\* removeWeeklyVideo up to its first await (lines 49-59)
RemoveStarts ==
    /\ library.pc = "idle"
    /\ library.lastWeeklyPlan # Null
    /\ \E indexToRemove \in 1..Len(library.lastWeeklyPlan.days) :
          library' = [library EXCEPT
                        !.pc = "reading",
                        !.updatedPlan =
                            withoutDay(library.lastWeeklyPlan, indexToRemove)]
    /\ UNCHANGED <<pipeline, arms, planner, route>>

\* removeWeeklyVideo, lines 59-68: the document is read and the array to
\* write is built from it
RemoveReads ==
    /\ library.pc = "reading"
    /\ \E outcome \in {"read", "failed"} :
          library' =
            IF outcome = "failed"
            THEN [library EXCEPT !.pc = "idle", !.updatedPlan = Null]
            ELSE IF library.store # <<>>
            THEN [library EXCEPT
                    !.pc = "writing",
                    !.plans = replaceLast(library.store, library.updatedPlan)]
            ELSE [library EXCEPT !.pc = "idle",
                                 !.lastWeeklyPlan = library.updatedPlan,
                                 !.updatedPlan = Null]
    /\ UNCHANGED <<pipeline, arms, planner, route>>

\* removeWeeklyVideo, lines 68-76: updateDoc writes the array, then the
\* state is set
RemoveWrites ==
    /\ library.pc = "writing"
    /\ \E outcome \in {"written", "failed"} :
          library' =
            IF outcome = "failed"
            THEN [library EXCEPT !.pc = "idle", !.updatedPlan = Null,
                                 !.plans = <<>>]
            ELSE [library EXCEPT !.pc = "idle",
                                 !.store = library.plans,
                                 !.lastWeeklyPlan = library.updatedPlan,
                                 !.updatedPlan = Null,
                                 !.plans = <<>>]
    /\ UNCHANGED <<pipeline, arms, planner, route>>

LibraryNext ==
    \/ LibraryLoads
    \/ SavePlan
    \/ RemoveStarts
    \/ RemoveReads
    \/ RemoveWrites

LibrarySpec == LibraryInit /\ [][LibraryNext]_vars

(***************************************************************************)
(* WorkOutPlanPage (app/workOutPlanPage/page.js): fetchExercises and       *)
(* fetchWeeklyPlan.  The buttons stay enabled while a request is in flight,*)
(* so requests overlap; planner.requests holds those in flight, numbered   *)
(* in the order in which they were issued.                                 *)
(***************************************************************************)
\* the most requests the user issues
MaxRequests == 3

\* the body of the answer to request n
Data(n, kind) == [t |-> "data", request |-> n, kind |-> kind]

\* the page after its first render (lines 7-10)
PlannerInit ==
    /\ NoCall
    /\ arms = Absent
    /\ library = Absent
    /\ planner = [loading |-> FALSE, result |-> Null, error |-> Null,
                  issued |-> 0, requests |-> {}]
    /\ route = Absent

\* fetchExercises or fetchWeeklyPlan up to its await (lines 48-53, 71-76)
PlannerFetch(kind) ==
    /\ planner.issued < MaxRequests
    /\ planner' = [planner EXCEPT
                      !.loading = TRUE,
                      !.result = Null,
                      !.error = Null,
                      !.issued = @ + 1,
                      !.requests = @ \cup {[n |-> planner.issued + 1,
                                            kind |-> kind]}]
    /\ UNCHANGED <<pipeline, arms, library, route>>

fetchExercises == PlannerFetch("exercise")
fetchWeeklyPlan == PlannerFetch("weeklyPlan")

\* the rest of either function (lines 58-66, 81-89): the answer is read and
\* displayed, or the error is, and loading is set to false
PlannerSettles ==
    /\ \E r \in planner.requests :
        \E outcome \in {"ok", "not ok", "failed"} :
          planner' =
            [planner EXCEPT
               !.requests = @ \ {r},
               !.result = IF outcome = "ok" THEN Data(r.n, r.kind) ELSE @,
               !.error = CASE outcome = "ok" -> @
                           [] outcome = "not ok" ->
                                Str(<<"Server responded with ", "500">>)
                           [] OTHER -> Str(<<"Failed to fetch">>),
               !.loading = FALSE]
    /\ UNCHANGED <<pipeline, arms, library, route>>

PlannerNext ==
    \/ fetchExercises
    \/ fetchWeeklyPlan
    \/ PlannerSettles

PlannerSpec == PlannerInit /\ [][PlannerNext]_vars

(***************************************************************************)
(* Two calls in progress at once.  JavaScript runs one continuation at a   *)
(* time: at every await the event loop may resume the other call.  All the *)
(* state of a call is in the parameters and the const and let bindings of  *)
(* its own invocation (lines 29-61, 79-117, 149-249); the module holds no   *)
(* binding that is assigned after load (the client `model` of lines 5-9 is  *)
(* only invoked).  The variables above are those of the call that runs     *)
(* next, `other` holds those of the suspended call.                        *)
(***************************************************************************)
\* the bindings of the call whose continuation runs next
Run ==
    [flow |-> flow, userQuery |-> userQuery, normalized |-> normalized,
     pc |-> pc, searchCalls |-> searchCalls, searchOutcome |-> searchOutcome,
     urls |-> urls, page |-> page, videos |-> videos,
     validVideos |-> validVideos, lookups |-> lookups, live |-> live,
     playable |-> playable, modelCalls |-> modelCalls,
     modelOutcome |-> modelOutcome, content |-> content, result |-> result]

\* the bindings of a call that has just been made
NewRun(f, q) ==
    [flow |-> f, userQuery |-> q, normalized |-> <<>>, pc |-> "start",
     searchCalls |-> 0, searchOutcome |-> "none", urls |-> <<>>,
     page |-> <<>>, videos |-> <<>>, validVideos |-> <<>>, lookups |-> <<>>,
     live |-> <<>>, playable |-> <<>>, modelCalls |-> 0,
     modelOutcome |-> "none", content |-> Undefined, result |-> NoResult]

\* the answers the two calls are given
ConcSearchResults == {<<>>, <<Vimeo>>, <<YtWatch, Clip>>, <<Clip, Vimeo>>}
ConcContents == {Text(<<Json(Arr(<<GenBlog, GenVimeo>>))>>), Text(<<Prose>>)}

ConcAnswers ==
    /\ urls \in ConcSearchResults
    /\ content \in ConcContents \cup {Undefined}

ConcInit ==
    /\ flow \in {"single", "weekly"}
    /\ userQuery = Str(<<"back", " ", "pain">>)
    /\ normalized = <<>>
    /\ pc = "start"
    /\ searchCalls = 0
    /\ searchOutcome = "none"
    /\ urls = <<>>
    /\ page = <<>>
    /\ videos = <<>>
    /\ validVideos = <<>>
    /\ lookups = <<>>
    /\ live = <<>>
    /\ playable = <<>>
    /\ modelCalls = 0
    /\ modelOutcome = "none"
    /\ content = Undefined
    /\ result = NoResult
    /\ other \in {NewRun(f, Str(<<" ", "Arm", " ", "Workout", " ">>)) :
                     f \in {"single", "weekly"}}
    /\ completion = Unrecorded
    /\ NoClients

\* the same with `playable` one array of the module that both calls push to
SwitchSharingPlayable ==
    /\ other # Absent
    /\ other' = Run
    /\ flow' = other.flow
    /\ userQuery' = other.userQuery
    /\ normalized' = other.normalized
    /\ pc' = other.pc
    /\ searchCalls' = other.searchCalls
    /\ searchOutcome' = other.searchOutcome
    /\ urls' = other.urls
    /\ page' = other.page
    /\ videos' = other.videos
    /\ validVideos' = other.validVideos
    /\ lookups' = other.lookups
    /\ live' = other.live
    /\ playable' = playable
    /\ modelCalls' = other.modelCalls
    /\ modelOutcome' = other.modelOutcome
    /\ content' = other.content
    /\ result' = other.result
    /\ UNCHANGED <<completion, clients>>

\* the event loop resumes the other call, and every binding with it
Switch ==
    /\ other # Absent
    /\ other' = Run
    /\ flow' = other.flow
    /\ userQuery' = other.userQuery
    /\ normalized' = other.normalized
    /\ pc' = other.pc
    /\ searchCalls' = other.searchCalls
    /\ searchOutcome' = other.searchOutcome
    /\ urls' = other.urls
    /\ page' = other.page
    /\ videos' = other.videos
    /\ validVideos' = other.validVideos
    /\ lookups' = other.lookups
    /\ live' = other.live
    /\ playable' = other.playable
    /\ modelCalls' = other.modelCalls
    /\ modelOutcome' = other.modelOutcome
    /\ content' = other.content
    /\ result' = other.result
    /\ UNCHANGED <<completion, clients>>

\* a step of the call that runs, given one of the answers above, or the
\* other call resumed
ConcNext ==
    \/ Start /\ ConcAnswers'
    \/ SearchFetchSettles /\ ConcAnswers'
    \/ SearchBodyUnreadable /\ ConcAnswers'
    \/ SearchBodyRead /\ ConcAnswers'
    \/ PageSettles /\ ConcAnswers'
    \/ LivenessSettles /\ ConcAnswers'
    \/ ModelRejects /\ ConcAnswers'
    \/ ModelAnswers /\ ConcAnswers'
    \/ Switch

ConcSpec == ConcInit /\ [][ConcNext]_vars

(***************************************************************************)
(* The same runs when a server may accept a request and never respond.     *)
(* fetch is called without a signal or a timeout (lines 66 and 159), so    *)
(* the awaited promise stays pending.                                      *)
(***************************************************************************)
\* line 66: the fetch of one page never responds
PageHangs ==
    /\ pc = "pages"
    /\ \E i \in 1..Len(urls) :
        /\ page[i].status = "pending"
        /\ page' = [page EXCEPT ![i].status = "hung"]
    /\ UNCHANGED <<other, completion, clients>>
    /\ UNCHANGED <<flow, userQuery, normalized, pc, searchCalls, searchOutcome,
                   urls, videos, validVideos, lookups, live, playable,
                   modelCalls, modelOutcome, content, result>>

\* line 159: the lookup the loop of lines 180-186 awaits never responds
LivenessHangs ==
    /\ pc = "liveness"
    /\ pc' = "livenessHung"
    /\ UNCHANGED <<other, completion, clients>>
    /\ UNCHANGED <<flow, userQuery, normalized, searchCalls, searchOutcome,
                   urls, page, videos, validVideos, lookups, live, playable,
                   modelCalls, modelOutcome, content, result>>

HangNext ==
    \/ Next
    \/ PageHangs
    \/ LivenessHangs

\* the event loop runs every continuation that can run, and a request that
\* is not hung is answered; whether a request hangs is the server's choice
HangSpec == Init /\ [][HangNext]_vars /\ WF_vars(Next)

(***************************************************************************)
(* What the claims speak of.                                               *)
(***************************************************************************)
Returned == pc = "returned"

\* tavilySearch has returned to its caller
DiscoveryReturned ==
    \/ searchOutcome = "notok"
    \/ searchOutcome = "ok" /\ pc \notin {"searchBody", "pages"}

\* the union tavilySearch returned: the direct results and the extractions
DiscoveryUnion ==
    IF searchOutcome = "notok" THEN <<>>
    ELSE tavilyOutput(urls, extractedOf(page))

ResultTypes == {"videos", "plan", "weeklyPlan", "error"}

planEntries == result.plan.elems

\* the model's text is no JSON, or JSON that is no array
Malformed(c) ==
    \/ jsonParseThrows(responseText(c))
    \/ jsonParse(responseText(c)).t # "array"

\* the liveness lookup of url failed in this run
LookupFailed(url) ==
    \E j \in 1..Len(live) :
        validVideos[j] = url /\ live[j] \in {"notok", "reject"}

\* C1: for every query, strings or not, the call never throws or rejects and
\* returns one of the four tagged variants; an exception raised by the
\* normalization is returned as the error variant too.
C1_NeverThrowsOrRejects ==
    /\ pc # "rejected"
    /\ Returned => result.type \in ResultTypes
    /\ (Returned /\ normalizeQueryThrows(userQuery)) => result.type = "error"

\* C2: a failed search (rejected request, non-success status, unreadable
\* body) makes tavilySearch return the empty list and the run goes on to the
\* generative model; the result is the error variant only if the model call
\* itself failed.
C2_SearchFailureDegrades ==
    searchOutcome \in {"reject", "notok", "unreadable"} =>
        /\ pc \in {"invoke", "returned"}
        /\ modelCalls = 1
        /\ (Returned /\ result.type = "error") => modelOutcome = "reject"

\* C3: a returned weeklyPlan has at most 7 entries, from discovery or from
\* the generative fallback.
C3_WeeklyPlanAtMostSeven ==
    (Returned /\ result.type = "weeklyPlan") => Len(planEntries) <= WeekLen

\* C4: in a returned weeklyPlan every entry's video is a string that
\* isValidVideoUrl accepts, on the discovery path and on the fallback path.
C4_WeeklyVideosValid ==
    (Returned /\ result.type = "weeklyPlan") =>
        \A i \in 1..Len(planEntries) : isValidVideoUrl(videoOf(planEntries[i]))

\* a weekly plan from the fallback out of which an invalid entry was dropped
C4_Witness ==
    /\ Returned
    /\ flow = "weekly"
    /\ modelOutcome = "answered"
    /\ content = Text(<<Json(Arr(<<GenBlog, GenVimeo>>))>>)
    /\ result = WeeklyResult(Arr(<<GenVimeo>>))

\* C5: getWeeklyPlan returns no entry whose link failed the pattern
\* validation or whose liveness lookup failed in the run, the entries of the
\* generative fallback included.
C5_NoFailedLinkReturned ==
    (Returned /\ result.type = "weeklyPlan") =>
        \A i \in 1..Len(planEntries) :
            /\ isValidVideoUrl(videoOf(planEntries[i]))
            /\ ~LookupFailed(videoOf(planEntries[i]).s)

\* C6: in both flows an entry of the generative fallback whose video matches
\* no recognized shape is dropped from the returned plan.
C6_FallbackEntriesValidated ==
    (Returned /\ modelOutcome = "answered" /\ result.plan.t = "array") =>
        \A i \in 1..Len(planEntries) : isValidVideoUrl(videoOf(planEntries[i]))

\* C7: in the single flow the model is invoked exactly when discovery
\* returned the empty union; a non-empty union is returned as it is, as
\* {type: "videos"}, without a call of the model.
C7_SingleFallbackIffEmpty ==
    flow = "single" =>
        /\ modelCalls > 0 <=> (DiscoveryReturned /\ DiscoveryUnion = <<>>)
        /\ (DiscoveryReturned /\ DiscoveryUnion # <<>>) =>
              /\ Returned
              /\ result = VideosResult(DiscoveryUnion)
              /\ modelCalls = 0

\* a single run answered by discovery, one of its videos extracted from a page
C7_Witness ==
    /\ flow = "single"
    /\ Returned
    /\ result.type = "videos"
    /\ Len(result.videos) = 2
    /\ \E i \in 1..Len(page) : page[i].status = "ok" /\ page[i].out # Null
    /\ modelCalls = 0

\* C8: when discovery yields no candidate, the model is invoked exactly once,
\* in both flows.
C8_FallbackExactlyOnce ==
    (DiscoveryReturned /\ DiscoveryUnion = <<>>) => modelCalls = 1

\* a weekly run whose page fetches all failed and that ended after the
\* model's answer
C8_Witness ==
    /\ flow = "weekly"
    /\ Returned
    /\ DiscoveryReturned
    /\ Len(urls) > 0
    /\ DiscoveryUnion = <<>>
    /\ modelOutcome = "answered"
    /\ modelCalls = 1

\* C9: malformed output of the model (no JSON, or JSON that is no array)
\* gives the empty plan of type "plan" or "weeklyPlan" in both flows.
C9_MalformedOutputIsEmptyPlan ==
    (Returned /\ modelOutcome = "answered" /\ Malformed(content)) =>
        /\ result.type = IF flow = "single" THEN "plan" ELSE "weeklyPlan"
        /\ result.plan = Arr(<<>>)

\* C10: a call of the model that rejects is recovered: the run returns the
\* empty plan of type "plan" or "weeklyPlan", never the error variant.
C10_ModelFailureIsEmptyPlan ==
    (Returned /\ modelOutcome = "reject") =>
        /\ result.type = IF flow = "single" THEN "plan" ELSE "weeklyPlan"
        /\ result.plan = Arr(<<>>)

\* the run is over: the call returned or rejected
Finished == pc \in {"returned", "rejected"}

\* C11 as stated: no external call is retried, and every run issues the
\* search request exactly once, fetches the page of each non-direct search
\* result at most once, looks each pattern-valid candidate up at most once and
\* invokes the model at most once.
C11_SearchExactlyOnceEveryRun ==
    /\ Finished => searchCalls = 1
    /\ \A i \in 1..Len(page) : page[i].fetches <= 1
    /\ \A j \in 1..Len(lookups) : lookups[j] <= 1
    /\ modelCalls <= 1

\* C11: no external call is retried: the search request is issued at most
\* once, and exactly once as soon as the query has been normalized (a query
\* that is no string ends the run before any request); the page of a direct
\* result is never fetched and that of any other result at most once; each
\* pattern-valid candidate gets at most one liveness lookup; the model is
\* invoked at most once.
C11_NoCallRetried ==
    /\ searchCalls <= 1
    /\ (pc # "start" /\ ~normalizeQueryThrows(userQuery)) => searchCalls = 1
    /\ normalizeQueryThrows(userQuery) => searchCalls = 0
    /\ \A i \in 1..Len(page) :
          page[i].fetches = IF isDirectVideo(urls[i]) THEN 0 ELSE 1
    /\ \A j \in 1..Len(lookups) : lookups[j] <= 1
    /\ modelCalls <= 1

\* a weekly run in which a page fetch, a liveness lookup and the call of the
\* model all failed, each after one attempt
C11_Witness ==
    /\ flow = "weekly"
    /\ Returned
    /\ searchCalls = 1
    /\ \E i \in 1..Len(page) :
          page[i].status \in {"reject", "notok"} /\ page[i].fetches = 1
    /\ \E j \in 1..Len(live) :
          live[j] \in {"reject", "notok"} /\ lookups[j] = 1
    /\ modelOutcome = "reject"
    /\ modelCalls = 1

\* the page fetch of search result i failed: network error or non-success
PageFailed(i) == page[i].status \in {"reject", "notok"}

\* the page of search result i was read and a video link was found in it
Extracted(i) == page[i].status = "ok" /\ page[i].out # Null

\* how often the link u is in the sequence vs
Occurrences(vs, u) == Cardinality({k \in 1..Len(vs) : vs[k] = u})

\* C12: a failed page fetch contributes no candidate and raises nothing, and
\* the discovery output is exactly the direct search results plus the
\* extractions that succeeded, each as often as it was found.
C12_FailedPageContributesNothing ==
    /\ \A i \in 1..Len(page) : PageFailed(i) => page[i].out = Null
    /\ (DiscoveryReturned /\ searchOutcome = "ok") =>
          /\ Len(videos) =
                Cardinality({i \in 1..Len(urls) : isDirectVideo(urls[i])})
                + Cardinality({i \in 1..Len(page) : Extracted(i)})
          /\ \A u \in {videos[k] : k \in 1..Len(videos)}
                   \cup {urls[i] : i \in 1..Len(urls)} :
                Occurrences(videos, u) =
                   Cardinality({i \in 1..Len(urls) :
                                   isDirectVideo(urls[i]) /\ urls[i] = u})
                   + Cardinality({i \in 1..Len(page) :
                                     Extracted(i) /\ page[i].out.s = u})
    /\ (Returned /\ result.type = "error") =>
          \/ searchOutcome \in {"reject", "unreadable"}
          \/ modelOutcome = "reject"

\* a single run whose search returned two direct links and one page, the
\* fetch of the page failed, and the videos are the two direct links
C12_Witness ==
    /\ flow = "single"
    /\ Returned
    /\ Len(urls) = 3
    /\ \E i \in 1..3 :
          /\ PageFailed(i)
          /\ \A j \in (1..3) \ {i} : isDirectVideo(urls[j])
    /\ result.type = "videos"
    /\ Len(result.videos) = 2
    /\ \A k \in 1..2 : isDirectVideo(result.videos[k])

\* the weekly run returned the plan built from the discovered videos
WeeklyDiscoveryPlan ==
    /\ flow = "weekly"
    /\ Returned
    /\ result.type = "weeklyPlan"
    /\ modelCalls = 0

\* the candidates that are the link u and whose lookup ended as o
Candidates(u, o) == {j \in 1..Len(live) : validVideos[j] = u /\ live[j] = o}

\* how often the link u is the video of an entry of the returned plan
PlanOccurrences(u) ==
    Cardinality({i \in 1..Len(planEntries) : videoOf(planEntries[i]) = Str(u)})

\* C13: on the weekly discovery path a YouTube link is in the returned plan
\* only for a candidate whose lookup returned HTTP success in this run; a
\* candidate that is no YouTube link is never looked up and is kept, in the
\* plan too unless more than a week of videos is playable.
C13_LivenessGatesYouTubeOnly ==
    /\ \A j \in 1..Len(live) :
          IF isYouTube(validVideos[j])
          THEN live[j] \in {"ok", "notok", "reject"} /\ lookups[j] = 1
          ELSE live[j] = "skipped" /\ lookups[j] = 0
    /\ \A u \in {validVideos[j] : j \in 1..Len(live)} :
          Occurrences(playable, u) =
             Cardinality(Candidates(u, "ok") \cup Candidates(u, "skipped"))
    /\ WeeklyDiscoveryPlan =>
          /\ \A i \in 1..Len(planEntries) :
                \E j \in 1..Len(live) :
                    /\ videoOf(planEntries[i]) = Str(validVideos[j])
                    /\ live[j] = IF isYouTube(validVideos[j]) THEN "ok"
                                 ELSE "skipped"
          /\ \A u \in {validVideos[j] : j \in 1..Len(live)} :
                /\ PlanOccurrences(u) <= Occurrences(playable, u)
                /\ Len(playable) <= WeekLen =>
                      PlanOccurrences(u) = Occurrences(playable, u)

\* a weekly run that returned the discovered plan: one YouTube candidate's
\* lookup failed, another's succeeded, and a link that is no YouTube link
\* was kept without a lookup
C13_Witness ==
    /\ WeeklyDiscoveryPlan
    /\ \E j \in 1..Len(live) : live[j] \in {"notok", "reject"}
    /\ \E j \in 1..Len(live) : live[j] = "ok"
    /\ \E j \in 1..Len(live) :
          /\ live[j] = "skipped"
          /\ lookups[j] = 0
          /\ PlanOccurrences(validVideos[j]) = 1
    /\ Len(planEntries) = 2

\* no two positions of the sequence vs hold the same value
NoRepeat(vs) == \A a, b \in 1..Len(vs) : vs[a] = vs[b] => a = b

\* C14: the candidates are deduplicated before they are returned: no link is
\* twice in the videos of a single-plan result or among the video fields of
\* a weekly plan, even when the search returns a link twice or two pages
\* yield the same link.
C14_ReturnedLinksDistinct ==
    /\ (Returned /\ result.type = "videos") => NoRepeat(result.videos)
    /\ (Returned /\ result.type = "weeklyPlan") =>
          NoRepeat([i \in 1..Len(planEntries) |-> videoOf(planEntries[i])])

\* C15: in every returned weeklyPlan, from discovery or from the generative
\* fallback, the entry at position i carries the label "Day i": the labels
\* are Day 1..Day k without gap, repeat or missing label.
C15_DayLabelsByPosition ==
    (Returned /\ result.type = "weeklyPlan") =>
        \A i \in 1..Len(planEntries) : planEntries[i].day = DayLabel(i)

\* the video that search result i contributes, as a sequence of 0 or 1 links
Contribution(i) ==
    IF isDirectVideo(urls[i]) THEN <<urls[i]>>
    ELSE IF Extracted(i) THEN <<page[i].out.s>>
    ELSE <<>>

\* the contributions of the search results i.. in the order of the search
RECURSIVE InSearchOrder(_)
InSearchOrder(i) ==
    IF i > Len(urls) THEN <<>> ELSE Contribution(i) \o InSearchOrder(i + 1)

\* the same, of the direct results only or of the other results only
RECURSIVE InSearchOrderOf(_, _)
InSearchOrderOf(i, direct) ==
    IF i > Len(urls) THEN <<>>
    ELSE (IF isDirectVideo(urls[i]) = direct THEN Contribution(i) ELSE <<>>)
         \o InSearchOrderOf(i + 1, direct)

\* the single run returned the discovered videos
SingleVideosReturned ==
    flow = "single" /\ Returned /\ result.type = "videos"

\* C16 as stated: the videos of a single-plan result are in the order of the
\* search results they come from, direct or extracted alike.
C16_VideosInSearchOrder ==
    SingleVideosReturned => result.videos = InSearchOrder(1)

\* C16: the videos of a single-plan result are the direct search results in
\* search order, followed by the extracted videos in the search order of
\* their pages.
C16_DirectThenExtractedInOrder ==
    SingleVideosReturned =>
        result.videos = InSearchOrderOf(1, TRUE) \o InSearchOrderOf(1, FALSE)

\* a single run that returned a direct link before the video extracted from
\* a page the search had listed earlier
C16_Witness ==
    /\ SingleVideosReturned
    /\ \E i, j \in 1..Len(urls) :
          /\ i < j
          /\ Extracted(i)
          /\ isDirectVideo(urls[j])
          /\ page[i].out.s # urls[j]
          /\ result.videos = <<urls[j], page[i].out.s>>

\* C17: every call of getExercisePlan and getWeeklyPlan eventually returns a
\* result, also when a page fetch or a liveness lookup never responds: the
\* hung fetch is cut off by a timeout and the run goes on without it.
C17_EventuallyReturns == <>Finished

\* the query is a string that is empty or holds white space only
Blank(q) == q.t = "string" /\ \A i \in 1..Len(q.s) : q.s[i] \in WhiteSpace

\* the call has yet to run its first step, or is suspended at an await whose
\* answer is outstanding: the search (lines 30, 43), a page (66), a lookup
\* (159) or the model (89, 209)
AwaitsAnswer ==
    \/ pc \in {"start", "searchFetch", "searchBody", "invoke"}
    \/ pc = "pages" /\ \E i \in 1..Len(page) : page[i].status = "pending"
    \/ /\ pc = "liveness"
       /\ Len(live) < Len(validVideos)
       /\ lookups[Len(live) + 1] = 1

\* C18: an empty or whitespace-only query is accepted by both flows: the
\* call does not reject, the normalized query is not empty and contains
\* "exercise workout video", the run goes on to its end (until it returns
\* it is never anywhere but at a request whose answer is outstanding), and
\* it returns the error variant only after a failed search or model call.
C18_BlankQueryAccepted ==
    Blank(userQuery) =>
        /\ pc # "rejected"
        /\ pc # "start" =>
              /\ normalized # <<>>
              /\ includes(normalized,
                          <<"exercise", " ", "workout", " ", "video">>)
        /\ ~Returned => AwaitsAnswer
        /\ (Returned /\ result.type = "error") =>
              \/ searchOutcome \in {"reject", "unreadable"}
              \/ modelOutcome = "reject"

\* a run of a blank query whose search was answered and that returned a
\* result other than the error variant
C18_Witness ==
    /\ Blank(userQuery)
    /\ Returned
    /\ normalized = <<" ", "exercise", " ", "workout", " ", "video">>
    /\ result.type \in {"videos", "plan", "weeklyPlan"}
    /\ searchOutcome = "ok"

\* out is the query q without the white space at its two ends, in lower
\* case, followed by the short suffix when none of the six keywords occurs
\* in it and by the long suffix when one does
NormalizedAs(q, out) ==
    \E a \in 1..(Len(q) + 1), b \in 0..Len(q) :
        /\ a <= b + 1
        /\ \A i \in 1..(a - 1) : q[i] \in WhiteSpace
        /\ \A i \in (b + 1)..Len(q) : q[i] \in WhiteSpace
        /\ a <= b => (q[a] \notin WhiteSpace /\ q[b] \notin WhiteSpace)
        /\ LET core == [i \in 1..(b - a + 1) |-> LowerPiece(q[a + i - 1])]
               keyword == \E i \in 1..Len(core) : core[i] \in fitnessContext
           IN  out = core \o
                     (IF keyword
                      THEN <<" ", "workout", " ", "exercise", " ", "fitness",
                             " ", "training", " ", "stretch", " ", "video">>
                      ELSE <<" ", "exercise", " ", "workout", " ", "video">>)

\* C19: for every query string, normalizeQuery returns the trimmed,
\* lowercased query followed by "exercise workout video" when it holds none
\* of the six keywords (as substrings, whatever their case) and by "workout
\* exercise fitness training stretch video" when it holds one; the query is
\* left as it was and nothing else changes.
C19_NormalizeQueryResult ==
    [][/\ NormalizedAs(userQuery.s, normalized')
       /\ userQuery' = userQuery
       /\ UNCHANGED <<other, completion, clients, flow, searchCalls, searchOutcome, urls, page,
                      videos,
                      validVideos, lookups, live, playable,
                      modelCalls, modelOutcome, content, result>>]_vars

\* normalizeQuery was applied to " Workouts": trimmed, put in lower case,
\* the keyword found inside the longer word
C19_Witness ==
    /\ pc = "normalized"
    /\ userQuery = Str(<<" ", "Workout", "s">>)
    /\ normalized = <<"workout", "s", " ", "workout", " ", "exercise", " ",
                      "fitness", " ", "training", " ", "stretch", " ",
                      "video">>

\* what tavilySearch returns for the answers the call r was given
OwnVideos(r) ==
    IF r.searchOutcome = "ok"
    THEN tavilyOutput(r.urls, [j \in 1..Len(r.page) |-> r.page[j].out])
    ELSE <<>>

\* the candidates vv[j..] that the lookups lv let through
RECURSIVE KeptFrom(_, _, _)
KeptFrom(vv, lv, j) ==
    IF j > Len(vv) \/ j > Len(lv) THEN <<>>
    ELSE (IF lv[j] \in {"ok", "skipped"} THEN <<vv[j]>> ELSE <<>>)
         \o KeptFrom(vv, lv, j + 1)

\* the playable videos of a weekly call (the single flow has no such list)
OwnPlayable(r) ==
    IF r.flow = "weekly"
    THEN KeptFrom(filterValid(OwnVideos(r)), r.live, 1)
    ELSE <<>>

\* the orders the shuffle of line 190 can leave the playable videos in
Orders(r) == Permutations(1..Len(OwnPlayable(r)))

\* what the call r returns after its call of the model
ModelResult(r) ==
    IF r.modelOutcome = "reject" THEN ErrorResult("model unavailable")
    ELSE IF r.flow = "single" THEN PlanResult(singlePlan(r.content))
    ELSE WeeklyResult(weeklyFallbackPlan(r.content))

\* what the call r returns, from its own query, the answers to its own
\* requests and the order perm of its shuffle
ResultFrom(r, perm) ==
    CASE r.searchOutcome = "reject" -> ErrorResult("fetch failed")
      [] r.searchOutcome = "unreadable" ->
            ErrorResult("Unexpected token < in JSON")
      [] OTHER ->
            IF r.flow = "single"
            THEN IF OwnVideos(r) # <<>> THEN VideosResult(OwnVideos(r))
                 ELSE ModelResult(r)
            ELSE IF OwnPlayable(r) # <<>>
                 THEN WeeklyResult(Arr(buildWeeklyPlan(
                          limit(shuffle(OwnPlayable(r), perm)),
                          normalizeQuery(r.userQuery))))
                 ELSE ModelResult(r)

\* C20 as stated: two calls in progress at once do not interact, and the
\* result of each is determined by its own query and the answers to its own
\* requests alone.
C20_ResultDeterminedByAnswers ==
    \A r \in {Run, other} :
        r.pc = "returned" =>
            \A perm \in Orders(r) : r.result = ResultFrom(r, perm)

\* C20: two calls in progress at once, their awaits interleaved in any
\* order, do not interact: the candidate lists of each are those of its own
\* answers, and its result is determined by its own query, the answers to
\* its own requests and, on the weekly discovery path, the order its own
\* shuffle left the playable videos in.
C20_CallsDoNotInteract ==
    \A r \in {Run, other} :
        /\ r.pc # "start" => r.normalized = normalizeQuery(r.userQuery)
        /\ r.pc \in {"liveness", "invoke", "returned"} =>
              r.videos = OwnVideos(r)
        /\ (r.flow = "weekly" /\ r.pc \in {"invoke", "returned"}
               /\ r.searchOutcome \in {"ok", "notok"}) =>
              /\ r.validVideos = filterValid(OwnVideos(r))
              /\ r.playable = OwnPlayable(r)
        /\ r.pc = "returned" =>
              \E perm \in Orders(r) : r.result = ResultFrom(r, perm)

\* a weekly call returned a plan of two discovered videos after the other
\* call had made its search request and while that call awaits a page, a
\* lookup or the model
C20_Witness ==
    /\ flow = "weekly"
    /\ Returned
    /\ result.type = "weeklyPlan"
    /\ modelCalls = 0
    /\ Len(planEntries) = 2
    /\ other.pc \in {"pages", "liveness", "invoke"}
    /\ other.searchCalls = 1

\* the weekly run has put every candidate through both validations: the loop
\* of lines 180-186 has ended
SurvivorsKnown == flow = "weekly" /\ DiscoveryReturned /\ pc # "liveness"

\* candidate j passed the pattern validation and the liveness check
Survived(j) ==
    /\ isValidVideoUrl(Str(validVideos[j]))
    /\ live[j] \in {"ok", "skipped"}

\* C21: in a weekly run the model is invoked if and only if no candidate
\* survived the pattern validation and the liveness check; when one did, the
\* run returns a weeklyPlan built from survivors only and the model is not
\* called.
C21_WeeklyFallbackIffNoSurvivor ==
    flow = "weekly" =>
        /\ modelCalls > 0 <=>
              (SurvivorsKnown /\ \A j \in 1..Len(live) : ~Survived(j))
        /\ (SurvivorsKnown /\ \E j \in 1..Len(live) : Survived(j)) =>
              /\ Returned
              /\ result.type = "weeklyPlan"
              /\ modelCalls = 0
              /\ Len(planEntries) > 0
              /\ \A i \in 1..Len(planEntries) :
                    \E j \in 1..Len(live) :
                        /\ Survived(j)
                        /\ videoOf(planEntries[i]) = Str(validVideos[j])

\* a weekly run with one candidate whose lookup failed and one that survived:
\* the plan is the survivor, the model was not called
C21_Witness ==
    /\ flow = "weekly"
    /\ Returned
    /\ \E j \in 1..Len(live) : live[j] \in {"notok", "reject"}
    /\ Cardinality({j \in 1..Len(live) : Survived(j)}) = 1
    /\ Len(planEntries) = 1
    /\ modelCalls = 0

\* the page fetches that have completed, in the order of their completion
Completed == completion.order

\* C22: all page fetches of a batch are started before any is awaited: while
\* the batch is awaited the page of every result that is no direct link has
\* been requested, and the fetches completed so far are any of them, in any
\* order; and the discovery output has the same content and order for every
\* order of completion: the direct results, then the extractions, both in
\* the order of the search results.
C22_BatchConcurrentOrderIndependent ==
    /\ pc = "pages" =>
          /\ \A i \in 1..Len(page) :
                ~isDirectVideo(urls[i]) => page[i].fetches = 1
          /\ \E i \in 1..Len(page) : page[i].status = "pending"
    /\ searchOutcome = "ok" /\ pc # "searchBody" =>
          /\ NoRepeat(Completed)
          /\ \A k \in 1..Len(Completed) :
                /\ Completed[k] \in 1..Len(urls)
                /\ ~isDirectVideo(urls[Completed[k]])
                /\ page[Completed[k]].status \in {"ok", "notok", "reject"}
          /\ \A i \in 1..Len(page) :
                page[i].status \in {"ok", "notok", "reject"} =>
                    \E k \in 1..Len(Completed) : Completed[k] = i
    /\ (DiscoveryReturned /\ searchOutcome = "ok") =>
          videos = InSearchOrderOf(1, TRUE) \o InSearchOrderOf(1, FALSE)

\* the page of a later search result completed before the page of an earlier
\* one, different videos were extracted from the two, and the videos
\* returned are in the order of the search results
C22_Witness ==
    /\ Returned
    /\ result.type = "videos"
    /\ \E a, b \in 1..Len(Completed) :
          /\ a < b
          /\ Completed[a] > Completed[b]
          /\ Extracted(Completed[a])
          /\ Extracted(Completed[b])
          /\ page[Completed[a]].out # page[Completed[b]].out
          /\ result.videos = <<page[Completed[b]].out.s,
                               page[Completed[a]].out.s>>

\* the smaller of two numbers
Min(a, b) == IF a < b THEN a ELSE b

\* C23: on the weekly discovery path with n >= 1 candidates surviving both
\* validations the returned plan has exactly min(7, n) entries, every entry's
\* video is a survivor, and no video is used more often than it occurs among
\* the survivors (all of them are used when n is at most 7).
C23_PlanIsPrefixOfShuffledSurvivors ==
    (SurvivorsKnown /\ Len(playable) >= 1) =>
        /\ WeeklyDiscoveryPlan
        /\ Len(playable) = Cardinality({j \in 1..Len(live) : Survived(j)})
        /\ Len(planEntries) = Min(WeekLen, Len(playable))
        /\ \A i \in 1..Len(planEntries) :
              /\ \E k \in 1..Len(playable) :
                    videoOf(planEntries[i]) = Str(playable[k])
              /\ planEntries[i].day = DayLabel(i)
        /\ \A k \in 1..Len(playable) :
              /\ PlanOccurrences(playable[k])
                    <= Occurrences(playable, playable[k])
              /\ Len(playable) <= WeekLen =>
                    PlanOccurrences(playable[k])
                        = Occurrences(playable, playable[k])

\* more than a week of candidates survived, two different videos among
\* them, and the plan is a week long with one of them left out
C23_Witness ==
    /\ WeeklyDiscoveryPlan
    /\ Len(playable) = WeekLen + 1
    /\ Len(planEntries) = WeekLen
    /\ \E k \in 1..Len(playable) :
          /\ playable[k] # playable[1]
          /\ PlanOccurrences(playable[k]) < Occurrences(playable, playable[k])

\* search result i took the branch of the direct links: kept, page not fetched
KeptAsIs(i) == page[i].status = "direct" /\ page[i].fetches = 0

\* search result i took the other branch: its page was requested, once
PageFetched(i) == page[i].status # "direct" /\ page[i].fetches = 1

\* C24: every search result is handled by exactly one branch of the
\* direct-link partition: a direct link is kept as it is and its page is
\* never fetched; any other result has its page fetched and is not itself
\* put in the output (the output has one link for each direct result and
\* one for each page a link was found in, no more); so every link of the
\* discovery output is a direct search result or a string extracted from
\* the page of a result that is not direct.
C24_DirectLinkPartition ==
    (searchOutcome = "ok" /\ pc # "searchBody") =>
        /\ Len(page) = Len(urls)
        /\ \A i \in 1..Len(urls) :
              /\ isDirectVideo(urls[i]) => KeptAsIs(i) /\ page[i].out = Null
              /\ ~isDirectVideo(urls[i]) => PageFetched(i)
        /\ DiscoveryReturned =>
              /\ Len(videos) =
                    Cardinality({i \in 1..Len(urls) : KeptAsIs(i)})
                    + Cardinality({i \in 1..Len(urls) :
                                      PageFetched(i) /\ Extracted(i)})
              /\ \A k \in 1..Len(videos) :
                    \/ \E i \in 1..Len(urls) :
                          KeptAsIs(i) /\ videos[k] = urls[i]
                    \/ \E i \in 1..Len(urls) :
                          /\ PageFetched(i)
                          /\ Extracted(i)
                          /\ videos[k] = page[i].out.s

\* the search returned a direct link and a page; the output is the direct
\* link and the link extracted from the page, and not the page's address
C24_Witness ==
    /\ DiscoveryReturned
    /\ searchOutcome = "ok"
    /\ Len(urls) = 2
    /\ Len(videos) = 2
    /\ \E i, j \in 1..2 :
          /\ KeptAsIs(i)
          /\ PageFetched(j)
          /\ Extracted(j)
          /\ videos = <<urls[i], page[j].out.s>>
          /\ urls[j] # page[j].out.s

\* the text c is a JSON array wrapped in triple backticks, with or without
\* the json tag
FencedArray(c) ==
    /\ c.t = "string"
    /\ LET x == trimText(c.text)
           body == SelectSeq(x, notWs)
       IN  /\ Len(body) = 3
           /\ Len(x) >= 3
           /\ Head(x).k = "fence" /\ Head(x).tag \in {"json", ""}
           /\ x[Len(x)].k = "fence" /\ x[Len(x)].tag = ""
           /\ body[2].k = "json"
           /\ body[2].v.t = "array"

\* the same array sent without the fence
Unfenced(c) == Text(<<SelectSeq(c.text, notWs)[2]>>)

\* the result of the flow for the model's answer c
AnswerResult(c) ==
    IF flow = "single" THEN PlanResult(singlePlan(c))
    ELSE WeeklyResult(weeklyFallbackPlan(c))

\* C25: stripping the Markdown code fence does not change the parsed result:
\* a model answer that is a valid JSON array wrapped in triple backticks,
\* with or without a json tag, gives in both flows the plan the same array
\* gives when sent without the fence.
C25_FenceStrippingKeepsPlan ==
    (Returned /\ modelOutcome = "answered" /\ FencedArray(content)) =>
        result = AnswerResult(Unfenced(content))

\* C26: if the bicep tracker is running when the user leaves the arms page,
\* a stop request is sent to the tracker, whatever status polls, start and
\* stop actions came before.
C26_StopSentOnLeave ==
    arms.pc = "unmounted" => arms.left # "running, no stop sent"

\* the run found nothing by discovery and asked the model
NothingFound == modelCalls > 0

\* C27: a result of type "videos" always holds at least one link: an empty
\* videos array is never returned; when nothing was found the result that is
\* no error is of type "plan" or "weeklyPlan", and only such a result, coming
\* from the model, holds an empty array.
C27_VideosResultNeverEmpty ==
    Returned =>
        /\ result.type = "videos" =>
              /\ flow = "single"
              /\ Len(result.videos) >= 1
              /\ ~NothingFound
        /\ (NothingFound /\ result.type # "error") =>
              result.type = (IF flow = "single" THEN "plan" ELSE "weeklyPlan")
        /\ (result.type \in {"plan", "weeklyPlan"}
              /\ result.plan = Arr(<<>>)) => NothingFound

\* the search found nothing, the model answered with the empty array, and
\* the single run returned {type: "plan", plan: []}
C27_Witness ==
    /\ flow = "single"
    /\ Returned
    /\ searchOutcome = "ok"
    /\ videos = <<>>
    /\ modelOutcome = "answered"
    /\ result = PlanResult(Arr(<<>>))

\* the request named no query, or the empty one
MissingOrEmpty(b) == b.t = "body" /\ b.query \in {Undefined, Str(<<>>)}

\* C28: the two route handlers always answer and never throw: status 200
\* with the pipeline's result for every outcome the pipeline returns, the
\* error variant included; status 500 with a body {error} and no type only
\* when an exception escaped (the request body could not be read, or the
\* call of the pipeline threw); a missing or empty query is replaced by the
\* route's default query before the pipeline is called.
C28_RoutesAnswer ==
    /\ route.pc = "body" => pc = "idle" /\ route.response = NoResponse
    /\ route.pc = "awaiting" =>
          /\ route.response = NoResponse
          /\ route.received.t = "body"
          /\ pc # "idle"
          /\ ~Finished => AwaitsAnswer
    /\ (route.pc # "body" /\ MissingOrEmpty(route.received)) =>
          userQuery = defaultQuery(flow)
    /\ (route.pc # "body" /\ route.received.t = "body"
          /\ route.received.query \in {Str(<<"back", " ", "pain">>), Num}) =>
          userQuery = route.received.query
    /\ route.pc = "responded" =>
          \/ /\ route.response.status = 200
             /\ Returned
             /\ result.type \in ResultTypes
             /\ route.response.body = result
          \/ /\ route.response.status = 500
             /\ DOMAIN route.response.body = {"error"}
             /\ pc \in {"idle", "rejected"}
             /\ pc = "idle" <=> route.received.t # "body"

\* the request carried the empty query, the pipeline was called with the
\* route's default, returned its error variant, and the route answered 200
\* with it
C28_Witness ==
    /\ route.pc = "responded"
    /\ route.received = Body(Str(<<>>))
    /\ userQuery = defaultQuery(flow)
    /\ result.type = "error"
    /\ route.response = Response(200, result)

\* the plan p is stored, as it was saved
StoredUnchanged(p) ==
    \E k \in 1..Len(library.store) : library.store[k] = p

\* the plan the library page is displaying
Displayed(p) ==
    /\ library.lastWeeklyPlan # Null
    /\ library.lastWeeklyPlan.createdAt = p.createdAt

\* C29: removeWeeklyVideo changes only the plan the library page is
\* displaying: a plan appended to the store after the page loaded its last
\* plan is neither overwritten nor dropped nor altered by removing a day,
\* and every other stored plan is kept as it was.
C29_RemoveKeepsOtherPlans ==
    \A p \in library.saved : ~Displayed(p) => StoredUnchanged(p)

\* C30: on the planner page, when requests of fetchExercises and
\* fetchWeeklyPlan overlap, loading is true whenever a request is still in
\* flight, and the result displayed is that of the request issued last,
\* whatever the order in which the answers arrive.
C30_LoadingAndLatestResult ==
    /\ planner.requests # {} => planner.loading
    /\ planner.result # Null => planner.result.request = planner.issued

====
